---------------------------- MODULE Spec2Model ----------------------------
(***************************************************************************)
(* Chord/tuning explorer (chordprog.github.io).                            *)
(*                                                                         *)
(* The repository holds several revisions of the same page script.  The   *)
(* three revisions that support the divisions 12/19/24/31 are modelled as  *)
(* variants of one session:                                                *)
(*   "script"  - src/script.js lines 1-470                                 *)
(*   "manual"  - src/unnamed/part_001 lines 1-340 (manual note-name table) *)
(*   "updated" - src/unnamed/part_002 (threshold based note naming)        *)
(*                                                                         *)
(* Numbers.  A frequency is kept exactly, as the real number               *)
(*      (n / d) * 2^(e / m)   Hz                                           *)
(* in the normal form  gcd(n,d) = 1, 0 <= e < m, gcd(e,m) = 1.  The normal *)
(* form is unique, so equality of records is equality of the real values.  *)
(* Rounding of IEEE doubles is not modelled; Math.round and Math.floor on  *)
(* the quotients the code forms agree with exact rational arithmetic for   *)
(* every division below 40.                                                *)
(***************************************************************************)
EXTENDS Integers, Naturals, Sequences, FiniteSets, TLC

\* ------------------------------------------------------------------------
\* Integer helpers
\* ------------------------------------------------------------------------
RECURSIVE GCD(_, _)
GCD(a, b) == IF b = 0 THEN a ELSE IF b = 1 THEN 1 ELSE GCD(b, a % b)

RECURSIVE TwoTo(_)
TwoTo(k) == IF k = 0 THEN 1 ELSE 2 * TwoTo(k - 1)

Min(a, b) == IF a < b THEN a ELSE b

\* A rounding that drops the fraction instead of rounding to nearest.
MathRound_Truncating(p, q) == p \div q

\* Math.round(p / q) for p >= 0, q > 0: nearest integer, halves go up.
MathRound(p, q) == (2 * p + q) \div (2 * q)

\* Math.floor(p / q) for q > 0 (\div rounds towards minus infinity).
MathFloor(p, q) == p \div q

\* Array.prototype.map
RECURSIVE MapSeq(_, _)
MapSeq(F(_), s) == IF s = <<>> THEN <<>> ELSE <<F(Head(s))>> \o MapSeq(F, Tail(s))

\* Array.prototype.slice(0, k)
Slice0(s, k) == SubSeq(s, 1, Min(k, Len(s)))

\* ------------------------------------------------------------------------
\* Exact frequency values
\* ------------------------------------------------------------------------
\* The value (p / q) * 2^(a / b), p,q,b > 0, a >= 0, in normal form.
MkFreq(p, q, a, b) ==
    LET oct == a \div b
        r   == a % b
        g2  == GCD(r, b)
        pp  == p * TwoTo(oct)
        g1  == GCD(pp, q)
    IN  [n |-> pp \div g1, d |-> q \div g1, e |-> r \div g2, m |-> b \div g2]

\* The two non-numbers a lookup or a product can give.
NaN == [n |-> 0, d |-> 0, e |-> 0, m |-> 1]

Undefined == [n |-> 0, d |-> 0, e |-> 0, m |-> 0]

IsNumber(f) == f.d > 0

\* isFinite(f) and f > 0
IsFinitePositive(f) == f.d > 0 /\ f.n > 0

\* A product with the ratio turned upside down.
TimesRatio_Inverted(f, p, q) ==
    IF ~IsNumber(f) THEN NaN ELSE MkFreq(f.n * q, f.d * p, f.e, f.m)

\* f * (p / q)
TimesRatio(f, p, q) ==
    IF ~IsNumber(f) THEN NaN ELSE MkFreq(f.n * p, f.d * q, f.e, f.m)

\* f * Math.pow(2, a / b)
TimesPow2(f, a, b) ==
    IF ~IsNumber(f) THEN NaN
    ELSE MkFreq(f.n, f.d, f.e * b + a * f.m, f.m * b)

\* ------------------------------------------------------------------------
\* CONFIG & DATA
\* ------------------------------------------------------------------------
DIVISIONS == <<12, 19, 24, 31>>

DEFAULT_DIVISION == 12

\* 261.63 Hz = 26163 / 100
BASE_FREQ_C4 == MkFreq(26163, 100, 0, 1)

Variants == {"script", "manual", "updated"}

\* The sharp sign as each revision spells it: ASCII '#', U+266F, and the
\* three code points the bytes of part_002 decode to.
SharpAscii == "#"
SharpGarbled == "<U+201A><U+00F4><U+00D8>"

NaturalNames(sh) ==
    <<"C", "C" \o sh, "D", "D" \o sh, "E", "F",
      "F" \o sh, "G", "G" \o sh, "A", "A" \o sh, "B">>

SEMITONE_NAMES_12(v) ==
    IF v = "updated" THEN NaturalNames(SharpGarbled) ELSE NaturalNames(SharpAscii)

Entry(nm, iv) == [name |-> nm, intervals |-> iv]

\* Objects are kept as the sequence of their own properties, in insertion
\* order (the order Object.keys and Object.entries enumerate).
CHORD_TYPES_12 ==
    << Entry("Major",        <<0, 4, 7>>),
       Entry("Minor",        <<0, 3, 7>>),
       Entry("Diminished",   <<0, 3, 6>>),
       Entry("Augmented",    <<0, 4, 8>>),
       Entry("Major 7th",    <<0, 4, 7, 11>>),
       Entry("Minor 7th",    <<0, 3, 7, 10>>),
       Entry("Dominant 7th", <<0, 4, 7, 10>>),
       Entry("Sus2",         <<0, 2, 7>>),
       Entry("Sus4",         <<0, 5, 7>>) >>

EXTRA_CHORDS_31 ==
    << Entry("Supermajor", <<0, 9, 13>>),
       Entry("Subminor",   <<0, 6, 13>>) >>

\* ratios are pairs <<numerator, denominator>>
STANDARD_JI_RATIOS_12 ==
    << <<1, 1>>, <<16, 15>>, <<9, 8>>, <<6, 5>>, <<5, 4>>, <<4, 3>>,
       <<45, 32>>, <<3, 2>>, <<8, 5>>, <<5, 3>>, <<9, 5>>, <<15, 8>> >>

CHORD_JI_RATIOS ==
    << Entry("Major",        << <<1, 1>>, <<5, 4>>, <<3, 2>> >>),
       Entry("Minor",        << <<1, 1>>, <<6, 5>>, <<3, 2>> >>),
       Entry("Diminished",   << <<1, 1>>, <<6, 5>>, <<7, 5>> >>),
       Entry("Augmented",    << <<1, 1>>, <<5, 4>>, <<25, 16>> >>),
       Entry("Major 7th",    << <<1, 1>>, <<5, 4>>, <<3, 2>>, <<15, 8>> >>),
       Entry("Minor 7th",    << <<1, 1>>, <<6, 5>>, <<3, 2>>, <<9, 5>> >>),
       Entry("Dominant 7th", << <<1, 1>>, <<5, 4>>, <<3, 2>>, <<7, 4>> >>),
       Entry("Sus2",         << <<1, 1>>, <<9, 8>>, <<3, 2>> >>),
       Entry("Sus4",         << <<1, 1>>, <<4, 3>>, <<3, 2>> >>),
       Entry("Supermajor",   << <<1, 1>>, <<9, 8>>, <<13, 8>> >>),
       Entry("Subminor",     << <<1, 1>>, <<6, 5>>, <<13, 8>> >>) >>

\* ------------------------------------------------------------------------
\* Property lookup  obj[key]
\* ------------------------------------------------------------------------
\* Names every object literal inherits from Object.prototype; each of them
\* reads as a function (or, for __proto__, an object): truthy, no map/slice.
ObjectPrototypeKeys == {"constructor", "toString", "__proto__"}

\* .length of such an inherited value: Object.length is 1, toString.length
\* is 0, Object.prototype has no length (-1 stands for undefined).
InheritedLength(k) ==
    IF k = "constructor" THEN 1 ELSE IF k = "toString" THEN 0 ELSE 0 - 1

Keys(obj) == [i \in 1..Len(obj) |-> obj[i].name]

KeySet(obj) == {obj[i].name : i \in 1..Len(obj)}

HasOwn(obj, k) == \E i \in 1..Len(obj) : obj[i].name = k

OwnValue(obj, k) == obj[CHOOSE i \in 1..Len(obj) : obj[i].name = k].intervals

\* kind "own": an array stored in the object; "inherited": a value found on
\* the prototype chain; "undefined": no such property.
ObjGet(obj, k) ==
    IF HasOwn(obj, k) THEN [kind |-> "own", val |-> OwnValue(obj, k)]
    ELSE IF k \in ObjectPrototypeKeys THEN [kind |-> "inherited", val |-> <<>>]
    ELSE [kind |-> "undefined", val |-> <<>>]

\* obj[k] = v: an existing key keeps its position, a new key is appended.
ObjSet(obj, k, v) ==
    IF HasOwn(obj, k)
    THEN [i \in 1..Len(obj) |-> IF obj[i].name = k THEN Entry(k, v) ELSE obj[i]]
    ELSE Append(obj, Entry(k, v))

\* ------------------------------------------------------------------------
\* Note naming
\* ------------------------------------------------------------------------
\* Glyphs of the manual table, written as their code points.
Sharp == "<U+266F>"
Flat == "<U+266D>"
HalfSharp == "<U+1D132>"
HalfFlat == "<U+1D133>"
DoubleFlat == "<U+1D12B>"
DoubleSharp == "<U+1D12A>"
\* The half-sharp suffix of part_002 as its bytes decode.
HalfSharpGarbled == "<U+F8FF><U+00F9><U+00D1><U+2264>"

G(letter, glyph) == letter \o glyph

NOTE_NAMES_BY_DIVISION(N) ==
    CASE N = 12 ->
      << "C", G("C", Sharp), "D", G("D", Sharp), "E", "F", G("F", Sharp),
         "G", G("G", Sharp), "A", G("A", Sharp), "B" >>
      [] N = 19 ->
      << "C", G("C", Sharp), G("D", Flat), "D", G("D", Sharp), G("E", Flat),
         "E", G("E", Sharp), "F", G("F", Sharp), G("G", Flat), "G",
         G("G", Sharp), G("A", Flat), "A", G("A", Sharp), G("B", Flat), "B",
         G("B", Sharp) >>
      [] N = 24 ->
      << "C", G("C", HalfSharp), G("C", Sharp), G("D", HalfFlat), "D",
         G("D", HalfSharp), G("D", Sharp), G("E", HalfFlat), "E",
         G("E", HalfSharp), "F", G("F", HalfSharp), G("F", Sharp),
         G("G", HalfFlat), "G", G("G", HalfSharp), G("G", Sharp),
         G("A", HalfFlat), "A", G("A", HalfSharp), G("A", Sharp),
         G("B", HalfFlat), "B", G("B", HalfSharp) >>
      [] N = 31 ->
      << "C", G("D", DoubleFlat), G("C", Sharp), G("D", Flat),
         G("C", DoubleSharp), "D", G("E", DoubleFlat), G("D", Sharp),
         G("E", Flat), G("D", DoubleSharp), "E", G("F", Flat), G("E", Sharp),
         "F", G("G", DoubleFlat), G("F", Sharp), G("G", Flat),
         G("F", DoubleSharp), "G", G("A", DoubleFlat), G("G", Sharp),
         G("A", Flat), G("G", DoubleSharp), "A", G("B", DoubleFlat),
         G("A", Sharp), G("B", Flat), G("A", DoubleSharp), "B", G("C", Flat),
         G("B", Sharp) >>
      [] OTHER -> <<>>

\* part_001: the manual table, or "Step k" (k from 1) when N has no table.
getNoteNamesForDivision(N) ==
    IF NOTE_NAMES_BY_DIVISION(N) = <<>>
    THEN [i \in 1..N |-> "Step " \o ToString(i)]
    ELSE NOTE_NAMES_BY_DIVISION(N)

\* (p / q).toFixed(1) for q > 0: one decimal, ties away from zero.
ToFixed1(p, q) ==
    LET a      == IF p < 0 THEN 0 - p ELSE p
        tenths == (20 * a + q) \div (2 * q)
        body   == ToString(tenths \div 10) \o "." \o ToString(tenths % 10)
    IN  IF p < 0 /\ tenths > 0 THEN "-" \o body ELSE body

\* script.js: the label of step s.  semitonePos = 12 s / N.
ScriptNoteLabel(N, s) ==
    LET base          == MathFloor(12 * s, N)
        semitoneIndex == ((base % 12) + 12) % 12
        r             == (12 * s) % N               \* frac = r / N
        fr            == IF 2 * r >= N THEN r - N ELSE r   \* frac - 1 from 0.5 up
        q4            == (8 * fr + N) \div (2 * N)  \* Math.round(frac * 4)
        mag4          == IF q4 < 0 THEN 0 - q4 ELSE q4
        sign          == IF q4 > 0 THEN "sharp" ELSE "flat"
        nm            == SEMITONE_NAMES_12("script")[semitoneIndex + 1]
    IN  IF q4 = 0 THEN nm
        ELSE IF mag4 = 2 THEN nm \o " half-" \o sign
        ELSE IF mag4 = 3 THEN nm \o " three-quarter-" \o sign
        ELSE IF mag4 = 1 THEN nm \o " quarter-" \o sign
        ELSE nm \o " (" \o ToFixed1(100 * fr, N) \o "c)"

\* part_002: NATURAL_THRESHOLD = 0.125, HALF_THRESHOLD = 0.20.
UpdatedNoteLabel(N, s) ==
    LET base          == MathFloor(12 * s, N)
        semitoneIndex == ((base % 12) + 12) % 12
        r             == (12 * s) % N               \* frac = r / N
        dist          == IF 2 * r >= N THEN 2 * r - N ELSE N - 2 * r
        names         == SEMITONE_NAMES_12("updated")
    IN  IF 8 * r < N THEN names[semitoneIndex + 1]
        ELSE IF 8 * (N - r) < N THEN names[((semitoneIndex + 1) % 12) + 1]
        ELSE IF 5 * dist <= 2 * N THEN names[semitoneIndex + 1] \o HalfSharpGarbled
        ELSE names[semitoneIndex + 1] \o " (" \o ToFixed1(100 * r, N) \o "c)"

generateNoteNamesForDivision(v, N) ==
    IF v = "updated" THEN [i \in 1..N |-> UpdatedNoteLabel(N, i - 1)]
    ELSE [i \in 1..N |-> ScriptNoteLabel(N, i - 1)]

\* A naming that takes the "Step k" fallback for every division.
NoteNamesFor_StepLabels(v, N) == [i \in 1..N |-> "Step " \o ToString(i)]

\* The note-name function each revision calls from rebuildAllForDivision.
NoteNamesFor(v, N) ==
    IF v = "manual" THEN getNoteNamesForDivision(N)
    ELSE generateNoteNamesForDivision(v, N)

\* ------------------------------------------------------------------------
\* Frequency tables.  Arrays are 1-based here: step s is element s + 1.
\* ------------------------------------------------------------------------
\* A table entry that always divides the octave in 12.
ETEntry_Semitone(N, s) == TimesPow2(BASE_FREQ_C4, s, 12)

ETEntry(N, s) == TimesPow2(BASE_FREQ_C4, s, N)

\* A table with one entry too many (loop bound i <= N).
computeETFrequencies_OneMore(N) == [i \in 1..(N + 1) |-> ETEntry(N, i - 1)]

computeETFrequencies(N) == [i \in 1..N |-> ETEntry(N, i - 1)]

\* An entry that takes the semitone below the step instead of the nearest.
JIApproxEntry_FloorIndex(N, s) ==
    LET semitoneIndexFloor == MathFloor(12 * s, N)
        octaveOffset       == MathFloor(12 * s, 12 * N)
        jiRatio == STANDARD_JI_RATIOS_12[(((semitoneIndexFloor % 12) + 12) % 12) + 1]
    IN  TimesPow2(TimesRatio(BASE_FREQ_C4, jiRatio[1], jiRatio[2]), octaveOffset, 1)

JIApproxEntry(N, s) ==
    LET semitoneIndexRound == MathRound(12 * s, N)
        octaveOffset       == MathFloor(12 * s, 12 * N)
        jiRatio == STANDARD_JI_RATIOS_12[(((semitoneIndexRound % 12) + 12) % 12) + 1]
    IN  TimesPow2(TimesRatio(BASE_FREQ_C4, jiRatio[1], jiRatio[2]), octaveOffset, 1)

computeJIApproxFrequencies(N) == [i \in 1..N |-> JIApproxEntry(N, i - 1)]

\* A lookup that wraps the index around the table.
ArrayGet_Wrapping(arr, s) == arr[(s % Len(arr)) + 1]

\* arr[s] for an integer s: undefined outside 0..length-1.
ArrayGet(arr, s) == IF s >= 0 /\ s < Len(arr) THEN arr[s + 1] ELSE Undefined

\* ------------------------------------------------------------------------
\* JI chord frequencies
\* ------------------------------------------------------------------------
\* The result of a call: the value returned, or throws = TRUE when the call
\* ends in a TypeError (val is then empty).
Returns(x) == [throws |-> FALSE, val |-> x]

Throws == [throws |-> TRUE, val |-> <<>>]

\* a % b of JS for b > 0: the sign of the dividend.
JSRem(a, b) == IF a >= 0 THEN a % b ELSE 0 - ((0 - a) % b)

StandardRatioOf(si) == STANDARD_JI_RATIOS_12[(si % 12) + 1]

\* A chord whose ratio list is shorter than the voices gets the listed
\* ratios only.
computeJIFrequenciesForChord_NoExtension(etFreqs, rootStep, chordType, numNotes) ==
    LET rootFreqET == ArrayGet(etFreqs, rootStep)
        ratios     == ObjGet(CHORD_JI_RATIOS, chordType)
        Scale(r)   == TimesRatio(rootFreqET, r[1], r[2])
        semitoneIntervals == ObjGet(CHORD_TYPES_12, chordType)
    IN  IF ratios.kind = "own" /\ Len(ratios.val) >= numNotes
        THEN Returns(MapSeq(Scale, Slice0(ratios.val, numNotes)))
        ELSE IF ratios.kind = "own"
        THEN Returns(MapSeq(Scale, ratios.val))
        ELSE IF ratios.kind = "inherited" /\ InheritedLength(chordType) >= numNotes
        THEN Throws                              \* ratios.slice is not a function
        ELSE IF ratios.kind = "inherited" /\ InheritedLength(chordType) >= 0
        THEN Returns([i \in 1..numNotes |-> NaN])   \* rootFreqET * undefined
        ELSE IF semitoneIntervals.kind = "inherited"
        THEN Throws                              \* semitoneIntervals.map is not a function
        ELSE IF semitoneIntervals.kind = "undefined"
        THEN Returns([i \in 1..numNotes |-> TimesPow2(rootFreqET, i - 1, numNotes)])
        ELSE Returns(MapSeq(Scale,
                 Slice0(MapSeq(StandardRatioOf, semitoneIntervals.val), numNotes)))

computeJIFrequenciesForChord(etFreqs, rootStep, chordType, numNotes) ==
    LET rootFreqET == ArrayGet(etFreqs, rootStep)
        ratios     == ObjGet(CHORD_JI_RATIOS, chordType)
        Scale(r)   == TimesRatio(rootFreqET, r[1], r[2])
        semitoneIntervals == ObjGet(CHORD_TYPES_12, chordType)
    IN  IF ratios.kind = "own" /\ Len(ratios.val) >= numNotes
        THEN Returns(MapSeq(Scale, Slice0(ratios.val, numNotes)))
        ELSE IF ratios.kind = "own"
        THEN Returns([i \in 1..numNotes |->
                        Scale(ratios.val[Min(i - 1, Len(ratios.val) - 1) + 1])])
        ELSE IF ratios.kind = "inherited" /\ InheritedLength(chordType) >= numNotes
        THEN Throws                              \* ratios.slice is not a function
        ELSE IF ratios.kind = "inherited" /\ InheritedLength(chordType) >= 0
        THEN Returns([i \in 1..numNotes |-> NaN])   \* rootFreqET * undefined
        ELSE IF semitoneIntervals.kind = "inherited"
        THEN Throws                              \* semitoneIntervals.map is not a function
        ELSE IF semitoneIntervals.kind = "undefined"
        THEN Returns([i \in 1..numNotes |-> TimesPow2(rootFreqET, i - 1, numNotes)])
        ELSE Returns(MapSeq(Scale,
                 Slice0(MapSeq(StandardRatioOf, semitoneIntervals.val), numNotes)))

\* ------------------------------------------------------------------------
\* Chord sets per division
\* ------------------------------------------------------------------------
\* intervals.map(i => Math.round(i * (N / 12)))
MapIntervals(intervals, N) == [j \in 1..Len(intervals) |-> MathRound(intervals[j] * N, 12)]

RECURSIVE AssignMapped(_, _, _)
AssignMapped(sets, names, N) ==
    IF names = <<>> THEN sets
    ELSE AssignMapped(ObjSet(sets, Head(names),
                             MapIntervals(OwnValue(CHORD_TYPES_12, Head(names)), N)),
                      Tail(names), N)

RECURSIVE AssignAll(_, _)
AssignAll(sets, entries) ==
    IF entries = <<>> THEN sets
    ELSE AssignAll(ObjSet(sets, Head(entries).name, Head(entries).intervals),
                   Tail(entries))

\* Chord sets that hold the rescaled canonical formulas and nothing else.
buildChordSetsForDivision_CanonicalOnly(v, N) == AssignMapped(<<>>, Keys(CHORD_TYPES_12), N)

buildChordSetsForDivision(v, N) ==
    LET base == AssignMapped(<<>>, Keys(CHORD_TYPES_12), N)
    IN  IF v = "manual"
        THEN (IF N = 31 THEN AssignAll(base, EXTRA_CHORDS_31) ELSE base)
        ELSE IF N = 19
        THEN AssignMapped(base, <<"Major", "Minor">>, 19)
        ELSE IF N = 24
        THEN ObjSet(ObjSet(base,
                 "Quarter-tone Major", MapIntervals(OwnValue(CHORD_TYPES_12, "Major"), 24)),
                 "Quarter-tone Minor", MapIntervals(OwnValue(CHORD_TYPES_12, "Minor"), 24))
        ELSE IF N = 31
        THEN AssignMapped(AssignAll(base, EXTRA_CHORDS_31), Keys(CHORD_TYPES_12), 31)
        ELSE base

\* ------------------------------------------------------------------------
\* Chord resolution
\* ------------------------------------------------------------------------
\* A step that is not wrapped into the octave.
StepOf_NoWrap(v, root, i, N) == root + i

StepOf(v, root, i, N) ==
    IF v = "manual" THEN JSRem(root + i, N)
    ELSE JSRem(JSRem(root + i, N) + N, N)

\* The steps listed from the last interval of the formula to the first.
getChordStepIndexes_LastFirst(v, root, type, sets, N) ==
    LET intervals == ObjGet(sets, type)
    IN  IF intervals.kind = "undefined" THEN Returns(<<>>)
        ELSE IF intervals.kind = "inherited" THEN Throws
        ELSE Returns([j \in 1..Len(intervals.val) |->
                         StepOf(v, root, intervals.val[Len(intervals.val) + 1 - j], N)])

getChordStepIndexes(v, root, type, sets, N) ==
    LET intervals == ObjGet(sets, type)
    IN  IF intervals.kind = "undefined" THEN Returns(<<>>)
        ELSE IF intervals.kind = "inherited" THEN Throws   \* intervals.map is not a function
        ELSE Returns([j \in 1..Len(intervals.val) |-> StepOf(v, root, intervals.val[j], N)])

\* The 12-tone revisions (part_003) resolve a chord to note names.
NOTES == NaturalNames(SharpAscii)

IndexOf(arr, x) ==
    IF \E i \in 1..Len(arr) : arr[i] = x
    THEN (CHOOSE i \in 1..Len(arr) : arr[i] = x /\ \A j \in 1..(i - 1) : arr[j] # x) - 1
    ELSE 0 - 1

CHORD_TYPES == CHORD_TYPES_12

getChordNotes(root, type) ==
    LET intervals == ObjGet(CHORD_TYPES, type)
        rootIndex == IndexOf(NOTES, root)
        NoteAt(k) == IF k >= 0 /\ k < Len(NOTES) THEN NOTES[k + 1] ELSE "undefined"
    IN  IF intervals.kind = "undefined" THEN Returns(<<>>)
        ELSE IF intervals.kind = "inherited" THEN Throws
        ELSE Returns([j \in 1..Len(intervals.val) |->
                        NoteAt(JSRem(rootIndex + intervals.val[j], 12))])

\* ------------------------------------------------------------------------
\* Bounds
\* ------------------------------------------------------------------------
\* Notes of the circle that get clicked: steps 0..MaxClickedNote.
MaxClickedNote == 1

\* Functions applied in isolation: divisions 1..MaxDivision, chords of up to
\* MaxCount voices.
MaxDivision == 32

MaxCount == 5

\* ------------------------------------------------------------------------
\* STATE
\* ------------------------------------------------------------------------
VARIABLES
    variant,              \* which revision of the script the page runs
    currentDivision,
    noteNames,
    etFrequencies,
    jiApproxFrequencies,
    chordSets,
    keyValue,             \* keySelect.value, the selected option's step index
    typeValue,            \* typeSelect.value
    tuningChecked,        \* tuningSwitch.checked: FALSE = ET, TRUE = JI
    activeIndexes,        \* note nodes carrying the class 'active'
    shownFrequencies,     \* per note node, the number its .note-freq text shows
    audioCtx,             \* "null", or the state of the one AudioContext
    contextsCreated,      \* how many AudioContext objects were constructed
    tones,                \* oscillators started by the latest event, in order
    call,                 \* the function applied in isolation, with its inputs
    ret                   \* and what it returned

sessionVars == <<variant, currentDivision, noteNames, etFrequencies,
                 jiApproxFrequencies, chordSets, keyValue, typeValue,
                 tuningChecked, activeIndexes, shownFrequencies, audioCtx,
                 contextsCreated, tones>>

vars == <<variant, currentDivision, noteNames, etFrequencies,
          jiApproxFrequencies, chordSets, keyValue, typeValue,
          tuningChecked, activeIndexes, shownFrequencies, audioCtx,
          contextsCreated, tones, call, ret>>

\* call: function name and inputs; ret: result once the call has been made.
Call(f, N, root, name, count) ==
    [fn |-> f, N |-> N, root |-> root, name |-> name, count |-> count]

NoCall == Call("none", 0, 0, "", 0)

Pending == [done |-> FALSE, throws |-> FALSE, val |-> <<>>]

Done(r) == [done |-> TRUE, throws |-> r.throws, val |-> r.val]

Tone(f, wave) == [freq |-> f, type |-> wave]

\* ------------------------------------------------------------------------
\* AUDIO
\* ------------------------------------------------------------------------
\* A context is constructed suspended or running, as the browser's autoplay
\* policy decides.  The choice matters only while no context exists.
NewContextStates == IF audioCtx = "null" THEN {"suspended", "running"} ELSE {"running"}

\* getAudioContext(): ctx0 is the context before the call, fresh the state a
\* newly constructed one would have.
getAudioContext(ctx0, fresh) == IF ctx0 = "null" THEN fresh ELSE ctx0

Created(ctx0) == IF ctx0 = "null" THEN 1 ELSE 0

\* if (ctx.state === 'suspended') ctx.resume();
ResumeIfSuspended(ctx) == IF ctx = "suspended" THEN "running" ELSE ctx

\* The chord and note handlers of part_001 do not resume the context.
AfterPlay(v, ctx) == IF v = "manual" THEN ctx ELSE ResumeIfSuspended(ctx)

\* ------------------------------------------------------------------------
\* Display
\* ------------------------------------------------------------------------
\* A display that shows the equal-temperament table in either mode.
updateFrequenciesDisplay_AlwaysET(v, useJI, N, jiApprox, et, old) == et

\* What updateFrequenciesDisplay leaves in the N note nodes; old is what the
\* nodes showed before.  The text itself is f.toFixed(2) + " Hz"; the model
\* keeps the number f that is formatted.
updateFrequenciesDisplay(v, useJI, N, jiApprox, et, old) ==
    LET freqArr == IF useJI THEN jiApprox ELSE et
    IN  IF Len(freqArr) = N /\ \A i \in 1..N : IsNumber(freqArr[i])
        THEN freqArr
        ELSE [i \in 1..N |->
                LET f == ArrayGet(freqArr, i - 1)
                IN  IF v = "script" THEN f
                    ELSE IF IsNumber(f) THEN f
                    ELSE IF v = "manual" THEN old[i]
                    ELSE Undefined]

\* A display that adds the class 'active' and never removes it.
updateActiveNotesDisplay_Adding(N, activeIdx) ==
    activeIndexes \cup ({activeIdx[j] : j \in 1..Len(activeIdx)} \cap (0..(N - 1)))

\* The nodes that end up with the class 'active'.
updateActiveNotesDisplay(N, activeIdx) ==
    {activeIdx[j] : j \in 1..Len(activeIdx)} \cap (0..(N - 1))

\* ------------------------------------------------------------------------
\* Selection
\* ------------------------------------------------------------------------
\* A root found by looking its label up in the 12-tone names (0 when absent).
getSelectedRootIndex_ByLabel(kv) ==
    IF \E i \in 1..Len(NOTES) : NOTES[i] = noteNames[kv + 1]
    THEN (CHOOSE i \in 1..Len(NOTES) : NOTES[i] = noteNames[kv + 1]) - 1
    ELSE 0

\* parseInt(keySelect.value, 10) || 0, for the option value kv (an index)
getSelectedRootIndex(kv) == kv

getSelectedChordType(tv) == tv

\* ------------------------------------------------------------------------
\* INITIALIZATION
\* ------------------------------------------------------------------------
Blank(N) == [i \in 1..N |-> Undefined]

\* A chord-type list that comes up with its last option selected.
FirstType_Last(sets) == IF Len(sets) > 0 THEN sets[Len(sets)].name ELSE ""

\* populateChordTypeOptions: the first key of the chord sets gets selected.
FirstType(sets) == IF Len(sets) > 0 THEN sets[1].name ELSE ""

\* The four tables rebuildAllForDivision computes for division N.
BuildTables(v, N) ==
    [names |-> NoteNamesFor(v, N),
     et    |-> computeETFrequencies(N),
     ji    |-> computeJIApproxFrequencies(N),
     sets  |-> buildChordSetsForDivision(v, N)]

\* BuildTables for the divisions on offer, evaluated once.
TablesOnOffer ==
    [v \in Variants |-> [j \in 1..Len(DIVISIONS) |-> BuildTables(v, DIVISIONS[j])]]

TablesFor(v, N) ==
    IF \E j \in 1..Len(DIVISIONS) : DIVISIONS[j] = N
    THEN TablesOnOffer[v][CHOOSE j \in 1..Len(DIVISIONS) : DIVISIONS[j] = N]
    ELSE BuildTables(v, N)

\* A rebuild that leaves the two selections as they were.
rebuildAllForDivision_KeepSelection(N) ==
    \E t \in {TablesFor(variant, N)} :
        /\ currentDivision' = N
        /\ noteNames' = t.names
        /\ etFrequencies' = t.et
        /\ jiApproxFrequencies' = t.ji
        /\ chordSets' = t.sets
        /\ UNCHANGED <<keyValue, typeValue>>
        /\ shownFrequencies' = updateFrequenciesDisplay(variant, tuningChecked, N,
                                   t.ji, t.et, Blank(N))
        /\ activeIndexes' = updateActiveNotesDisplay(N, <<>>)

rebuildAllForDivision(N) ==
    \E t \in {TablesFor(variant, N)} :
        /\ currentDivision' = N
        /\ noteNames' = t.names
        /\ etFrequencies' = t.et
        /\ jiApproxFrequencies' = t.ji
        /\ chordSets' = t.sets
        /\ keyValue' = 0                        \* populateKeyOptions
        /\ typeValue' = FirstType(t.sets)       \* populateChordTypeOptions
        /\ shownFrequencies' = updateFrequenciesDisplay(variant, tuningChecked, N,
                                   t.ji, t.et, Blank(N))
        /\ activeIndexes' = updateActiveNotesDisplay(N, <<>>)

\* A page that constructs its audio context before it builds the tables.
Init_AudioFirst ==
    /\ variant \in Variants
    /\ currentDivision = DEFAULT_DIVISION
    /\ noteNames = NoteNamesFor(variant, DEFAULT_DIVISION)
    /\ etFrequencies = computeETFrequencies(DEFAULT_DIVISION)
    /\ jiApproxFrequencies = computeJIApproxFrequencies(DEFAULT_DIVISION)
    /\ chordSets = buildChordSetsForDivision(variant, DEFAULT_DIVISION)
    /\ keyValue = 0
    /\ typeValue = FirstType(buildChordSetsForDivision(variant, DEFAULT_DIVISION))
    /\ tuningChecked = FALSE
    /\ shownFrequencies = updateFrequenciesDisplay(variant, FALSE, DEFAULT_DIVISION,
           computeJIApproxFrequencies(DEFAULT_DIVISION),
           computeETFrequencies(DEFAULT_DIVISION), Blank(DEFAULT_DIVISION))
    /\ activeIndexes = {}
    /\ audioCtx = "suspended"
    /\ contextsCreated = 1
    /\ tones = <<>>
    /\ call = NoCall
    /\ ret = Pending

Init ==
    /\ variant \in Variants
    /\ currentDivision = DEFAULT_DIVISION
    /\ noteNames = NoteNamesFor(variant, DEFAULT_DIVISION)
    /\ etFrequencies = computeETFrequencies(DEFAULT_DIVISION)
    /\ jiApproxFrequencies = computeJIApproxFrequencies(DEFAULT_DIVISION)
    /\ chordSets = buildChordSetsForDivision(variant, DEFAULT_DIVISION)
    /\ keyValue = 0
    /\ typeValue = FirstType(buildChordSetsForDivision(variant, DEFAULT_DIVISION))
    /\ tuningChecked = FALSE
    /\ shownFrequencies = updateFrequenciesDisplay(variant, FALSE, DEFAULT_DIVISION,
           computeJIApproxFrequencies(DEFAULT_DIVISION),
           computeETFrequencies(DEFAULT_DIVISION), Blank(DEFAULT_DIVISION))
    /\ activeIndexes = {}
    /\ audioCtx = "null"
    /\ contextsCreated = 0
    /\ tones = <<>>
    /\ call = NoCall
    /\ ret = Pending

\* ------------------------------------------------------------------------
\* CHORD selection & playback
\* ------------------------------------------------------------------------
\* What a handler leaves behind in the display and the audio state.
Effect(act, shown, ctx, created, started) ==
    [active |-> act, shown |-> shown, ctx |-> ctx, created |-> created,
     tones |-> started]

NoEffect == Effect(activeIndexes, shownFrequencies, audioCtx, contextsCreated, <<>>)

\* An ET chord that leaves its root silent.
ETChordFrequencies_NoRoot(v, steps, et) ==
    [j \in 1..(Len(steps) - 1) |-> ArrayGet(et, steps[j + 1])]

\* The tones of a chord in ET: script.js and part_002 skip a step without a
\* frequency, part_001 maps every step.
ETChordFrequencies(v, steps, et) ==
    LET all == [j \in 1..Len(steps) |-> ArrayGet(et, steps[j])]
    IN  IF v = "manual" THEN all ELSE SelectSeq(all, IsNumber)

\* The one element of a singleton set (binds a computed value).
The(S) == CHOOSE x \in S : TRUE

\* playCurrentChord with keySelect.value = kv and typeSelect.value = tv;
\* fresh is the state a newly constructed AudioContext would have.
playCurrentChord(kv, tv, fresh) ==
    LET root  == getSelectedRootIndex(kv)
        type  == getSelectedChordType(tv)
        useJI == tuningChecked
        Sound(steps, freqs) ==
            Effect(updateActiveNotesDisplay(currentDivision, steps),
                   updateFrequenciesDisplay(variant, useJI, currentDivision,
                       jiApproxFrequencies, etFrequencies, shownFrequencies),
                   AfterPlay(variant, getAudioContext(audioCtx, fresh)),
                   contextsCreated + Created(audioCtx),
                   [j \in 1..Len(freqs) |-> Tone(freqs[j], "triangle")])
        JIPlay(steps, ji) ==
            IF ji.throws
            THEN Effect(updateActiveNotesDisplay(currentDivision, steps),
                        shownFrequencies, audioCtx, contextsCreated, <<>>)
            ELSE Sound(steps, ji.val)
        Play(res) ==
            IF res.throws \/ Len(res.val) = 0 THEN NoEffect
            ELSE IF useJI
            THEN The({JIPlay(res.val, ji) : ji \in
                        {computeJIFrequenciesForChord(etFrequencies, root, type,
                                                      Len(res.val))}})
            ELSE Sound(res.val, ETChordFrequencies(variant, res.val, etFrequencies))
    IN  The({Play(res) : res \in
                {getChordStepIndexes(variant, root, type, chordSets, currentDivision)}})

\* playSingleNote(freq)
playSingleNote(freq, fresh) ==
    IF ~IsFinitePositive(freq) THEN NoEffect
    ELSE Effect(activeIndexes, shownFrequencies,
                AfterPlay(variant, getAudioContext(audioCtx, fresh)),
                contextsCreated + Created(audioCtx),
                <<Tone(freq, "sine")>>)

\* The window 'click' listener, run after a handler that left effect eff.
windowClick(effect, fresh) ==
    LET W(eff) == [eff EXCEPT !.ctx = ResumeIfSuspended(getAudioContext(eff.ctx, fresh)),
                              !.created = eff.created + Created(eff.ctx)]
    IN  The({W(eff) : eff \in {effect}})

Apply(effect) ==
    \E eff \in {effect} :
        /\ activeIndexes' = eff.active
        /\ shownFrequencies' = eff.shown
        /\ audioCtx' = eff.ctx
        /\ contextsCreated' = eff.created
        /\ tones' = eff.tones

tables == <<currentDivision, noteNames, etFrequencies, jiApproxFrequencies, chordSets>>

\* ------------------------------------------------------------------------
\* EVENT HOOKS
\* ------------------------------------------------------------------------
\* divisionSelect 'change': the user picked another of the DIVISIONS options.
DivisionChange ==
    \E j \in 1..Len(DIVISIONS) :
        /\ DIVISIONS[j] # currentDivision
        /\ rebuildAllForDivision(DIVISIONS[j])
        /\ tones' = <<>>
        /\ UNCHANGED <<variant, tuningChecked, audioCtx, contextsCreated, call, ret>>

\* tuningSwitch 'change'
TuningChange ==
    /\ tuningChecked' = ~tuningChecked
    /\ shownFrequencies' = updateFrequenciesDisplay(variant, ~tuningChecked,
           currentDivision, jiApproxFrequencies, etFrequencies, shownFrequencies)
    /\ tones' = <<>>
    /\ UNCHANGED <<variant, tables, keyValue, typeValue, activeIndexes, audioCtx,
                   contextsCreated, call, ret>>

\* keySelect 'change': another option of the key list was picked.
KeyChange ==
    \E k \in 0..(Len(noteNames) - 1), fresh \in NewContextStates :
        /\ k # keyValue
        /\ keyValue' = k
        /\ Apply(playCurrentChord(k, typeValue, fresh))
        /\ UNCHANGED <<variant, tables, typeValue, tuningChecked, call, ret>>

\* typeSelect 'change': another option of the chord-type list was picked.
TypeChange ==
    \E t \in KeySet(chordSets), fresh \in NewContextStates :
        /\ t # typeValue
        /\ typeValue' = t
        /\ Apply(playCurrentChord(keyValue, t, fresh))
        /\ UNCHANGED <<variant, tables, keyValue, tuningChecked, call, ret>>

\* playBtn 'click'; the click then reaches the window listener.
PlayClick ==
    \E fresh \in NewContextStates :
        /\ Apply(windowClick(playCurrentChord(keyValue, typeValue, fresh), fresh))
        /\ UNCHANGED <<variant, tables, keyValue, typeValue, tuningChecked, call, ret>>

\* The frequency a click on note i plays.
ClickedFrequency(i) ==
    ArrayGet(IF tuningChecked THEN jiApproxFrequencies ELSE etFrequencies, i)

\* 'click' on note i of the circle.  part_001 and part_002 stop the event
\* there; in script.js it goes on to the window listener.
NoteClick ==
    \E i \in 0..Min(MaxClickedNote, currentDivision - 1), fresh \in NewContextStates :
        /\ Apply(IF variant = "script"
                 THEN windowClick(playSingleNote(ClickedFrequency(i), fresh), fresh)
                 ELSE playSingleNote(ClickedFrequency(i), fresh))
        /\ UNCHANGED <<variant, tables, keyValue, typeValue, tuningChecked, call, ret>>

\* A click anywhere else on the page.
WindowClick ==
    \E fresh \in NewContextStates :
        /\ Apply(windowClick(NoEffect, fresh))
        /\ UNCHANGED <<variant, tables, keyValue, typeValue, tuningChecked, call, ret>>

Next ==
    \/ DivisionChange
    \/ TuningChange
    \/ KeyChange
    \/ TypeChange
    \/ PlayClick
    \/ NoteClick
    \/ WindowClick

Spec == Init /\ [][Next]_vars

\* ------------------------------------------------------------------------
\* The functions applied in isolation
\* ------------------------------------------------------------------------
\* Every name of the tables, two names of no table, and inherited names.
FormulaNames ==
    KeySet(CHORD_TYPES_12) \cup KeySet(EXTRA_CHORDS_31) \cup KeySet(CHORD_JI_RATIOS)
    \cup {"Quarter-tone Major", "Quarter-tone Minor", "Unknown", ""}
    \cup ObjectPrototypeKeys

DivisionSet == {DIVISIONS[j] : j \in 1..Len(DIVISIONS)}

\* What divisionSelect.value can hold when the handler runs: the digits of an
\* integer N, N followed by a fraction ("19.5"), or text that is no number.
RequestKinds == {"integer", "fraction", "text"}

\* parseInt(divisionSelect.value, 10) || DEFAULT_DIVISION
ParseDivision(kind, N) ==
    IF kind = "text" \/ N = 0 THEN DEFAULT_DIVISION ELSE N

\* Inputs: the table functions take a division; the chord functions take a
\* supported division (whose tables are then the ones in force), a root and
\* a name.  Functions that read the same in every revision are applied once.
CallInputs(v) ==
    UNION {{Call("getChordStepIndexes", N, root, name, 0) :
               root \in 0..(N - 1), name \in FormulaNames} : N \in DivisionSet}
    \cup {Call("buildChordSetsForDivision", N, 0, "", 0) : N \in 1..MaxDivision}
    \cup (IF v # "script" THEN {} ELSE
          {Call("computeETFrequencies", N, 0, "", 0) : N \in 1..MaxDivision}
          \cup {Call("computeJIApproxFrequencies", N, 0, "", 0) : N \in 1..MaxDivision}
          \cup UNION {{Call("computeJIFrequenciesForChord", N, root, name, count) :
                         root \in 0..(2 * N - 1), name \in FormulaNames,
                         count \in 1..MaxCount} : N \in DivisionSet}
          \cup {Call("getChordNotes", 12, root, name, 0) :
                  root \in 0..12, name \in FormulaNames})
    \cup (IF v = "manual" THEN {} ELSE
          {Call("generateNoteNamesForDivision", N, 0, "", 0) : N \in 1..MaxDivision})
    \cup {Call("playCurrentChord", DEFAULT_DIVISION, 0, name, 0) : name \in FormulaNames}
    \cup {Call("divisionChange", N, 0, kind, 0) :
             N \in (0 - MaxDivision)..MaxDivision, kind \in RequestKinds}

InitFn ==
    /\ variant \in Variants
    /\ currentDivision = DEFAULT_DIVISION
    /\ noteNames = NoteNamesFor(variant, DEFAULT_DIVISION)
    /\ etFrequencies = computeETFrequencies(DEFAULT_DIVISION)
    /\ jiApproxFrequencies = computeJIApproxFrequencies(DEFAULT_DIVISION)
    /\ chordSets = buildChordSetsForDivision(variant, DEFAULT_DIVISION)
    /\ keyValue = 0
    /\ typeValue = FirstType(chordSets)
    /\ tuningChecked = FALSE
    /\ shownFrequencies = etFrequencies
    /\ activeIndexes = {}
    /\ audioCtx = "null"
    /\ contextsCreated = 0
    /\ tones = <<>>
    /\ call \in CallInputs(variant)
    /\ ret = Pending

Apply_(f, result) ==
    /\ call.fn = f
    /\ ~ret.done
    /\ ret' = Done(result)
    /\ UNCHANGED <<sessionVars, call>>

CallGetChordStepIndexes ==
    Apply_("getChordStepIndexes",
           getChordStepIndexes(variant, call.root, call.name,
                               TablesFor(variant, call.N).sets, call.N))

CallBuildChordSets ==
    Apply_("buildChordSetsForDivision",
           Returns(buildChordSetsForDivision(variant, call.N)))

CallComputeET ==
    Apply_("computeETFrequencies", Returns(computeETFrequencies(call.N)))

CallComputeJIApprox ==
    Apply_("computeJIApproxFrequencies", Returns(computeJIApproxFrequencies(call.N)))

\* script.js and part_002 each have a generateNoteNamesForDivision.
CallGenerateNoteNames ==
    Apply_("generateNoteNamesForDivision",
           Returns(generateNoteNamesForDivision(variant, call.N)))

CallComputeJIChord ==
    Apply_("computeJIFrequenciesForChord",
           computeJIFrequenciesForChord(TablesFor(variant, call.N).et, call.root,
                                        call.name, call.count))

\* The root of getChordNotes is a note name; root 12 stands for a string
\* that names no note.
RootName(k) == IF k < Len(NOTES) THEN NOTES[k + 1] ELSE "H"

CallGetChordNotes ==
    Apply_("getChordNotes", getChordNotes(RootName(call.root), call.name))

\* The divisionSelect 'change' handler run on an arbitrary value.  Nothing in
\* it or in rebuildAllForDivision throws.
CallDivisionChange ==
    /\ call.fn = "divisionChange"
    /\ ~ret.done
    /\ rebuildAllForDivision(ParseDivision(call.name, call.N))
    /\ tones' = <<>>
    /\ ret' = Done(Returns(<<>>))
    /\ UNCHANGED <<variant, tuningChecked, audioCtx, contextsCreated, call>>

\* Before playCurrentChord is applied to a chord name, the chord the page
\* has selected may have been played (playBtn 'click'), which highlights it.
PlaySelected ==
    \E fresh \in NewContextStates :
        /\ call.fn = "playCurrentChord"
        /\ ~ret.done
        /\ tones = <<>>
        /\ Apply(windowClick(playCurrentChord(keyValue, typeValue, fresh), fresh))
        /\ UNCHANGED <<variant, tables, keyValue, typeValue, tuningChecked, call, ret>>

\* playBtn 'click' with typeSelect.value = call.name, any string.  ret is
\* what getChordStepIndexes gave the handler.
CallPlayCurrentChord ==
    \E fresh \in NewContextStates :
        /\ call.fn = "playCurrentChord"
        /\ ~ret.done
        /\ typeValue' = call.name
        /\ Apply(windowClick(playCurrentChord(keyValue, call.name, fresh), fresh))
        /\ ret' = Done(getChordStepIndexes(variant, keyValue, call.name, chordSets,
                                           currentDivision))
        /\ UNCHANGED <<variant, tables, keyValue, tuningChecked, call>>

NextFn ==
    \/ CallGetChordStepIndexes
    \/ CallBuildChordSets
    \/ CallComputeET
    \/ CallComputeJIApprox
    \/ CallGenerateNoteNames
    \/ CallComputeJIChord
    \/ CallGetChordNotes
    \/ CallDivisionChange
    \/ PlaySelected
    \/ CallPlayCurrentChord

SpecFn == InitFn /\ [][NextFn]_vars

\* ------------------------------------------------------------------------
\* The 12-tone revisions
\* ------------------------------------------------------------------------
\* Three earlier revisions of the page know the 12-tone division only and
\* carry the root as a note name:
\*   "chords"  - src/unnamed/part_000 lines 1-98: one chord-select listing
\*               every "<root> <type>"; playChord makes its own AudioContext
\*   "selects" - src/unnamed/part_001 lines 342-448: key-select and
\*               type-select; playChord makes its own AudioContext
\*   "shared"  - src/unnamed/part_003: key-select, type-select and a play
\*               button; one AudioContext behind getAudioContext
\* They use the variables of the session: keyValue holds the root's name,
\* noteNames is NOTES, chordSets is CHORD_TYPES, etFrequencies the twelve
\* values of noteToFrequency; there is no tuning switch, no JI table and no
\* frequency text.
LegacyVariants == {"chords", "selects", "shared"}

\* playChord constructs at most MaxContexts contexts in a checked session.
MaxContexts == 3

\* noteToFrequency(note): null (no number) for a name NOTES does not hold.
noteToFrequency(note) ==
    IF IndexOf(NOTES, note) = 0 - 1 THEN Undefined
    ELSE ETEntry(12, IndexOf(NOTES, note))

\* updateCircle(activeNotes): the nodes whose text is one of the names.
updateCircle(activeNotes) ==
    {i \in 0..(Len(NOTES) - 1) : \E j \in 1..Len(activeNotes) : activeNotes[j] = NOTES[i + 1]}

\* The oscillators playChord(notes) starts.
ChordOscillators(notes) ==
    LET freqs == SelectSeq([j \in 1..Len(notes) |-> noteToFrequency(notes[j])], IsNumber)
    IN  [j \in 1..Len(freqs) |-> Tone(freqs[j], "triangle")]

\* playChord(notes), leaving the highlights act; fresh is the state a newly
\* constructed AudioContext has.  part_003 asks getAudioContext and resumes;
\* the other two construct a context of their own on every call.
playChord(v, act, notes, fresh) ==
    IF v = "shared"
    THEN Effect(act, shownFrequencies,
                ResumeIfSuspended(getAudioContext(audioCtx, fresh)),
                contextsCreated + Created(audioCtx),
                ChordOscillators(notes))
    ELSE Effect(act, shownFrequencies, fresh, contextsCreated + 1,
                ChordOscillators(notes))

\* The 'change' handler of part_001 / part_003 with keySelect.value = root
\* and typeSelect.value = type; in part_000 the handler of chord-select with
\* the option "<root> <type>", whose CHORDS entry holds the same names (an
\* empty chord is highlighted but not played).
legacyChange(v, root, type, fresh) ==
    LET chordNotes == getChordNotes(root, type).val
    IN  IF v = "chords" /\ Len(chordNotes) = 0
        THEN Effect(updateCircle(chordNotes), shownFrequencies, audioCtx,
                    contextsCreated, <<>>)
        ELSE playChord(v, updateCircle(chordNotes), chordNotes, fresh)

\* A context constructed in a handler comes up suspended or running.
FreshContextStates == {"suspended", "running"}

\* playChord may construct another context.
MayPlay == variant = "shared" \/ contextsCreated < MaxContexts

InitLegacy ==
    /\ variant \in LegacyVariants
    /\ currentDivision = Len(NOTES)
    /\ noteNames = NOTES
    /\ etFrequencies = [i \in 1..Len(NOTES) |-> noteToFrequency(NOTES[i])]
    /\ jiApproxFrequencies = <<>>
    /\ chordSets = CHORD_TYPES
    /\ keyValue = NOTES[1]
    /\ typeValue = FirstType(CHORD_TYPES)
    /\ tuningChecked = FALSE
    /\ shownFrequencies = <<>>
    /\ activeIndexes = {}
    /\ audioCtx = "null"
    /\ contextsCreated = 0
    /\ tones = <<>>
    /\ call = NoCall
    /\ ret = Pending

\* keySelect 'change' (part_001 tail, part_003)
LegacyKeyChange ==
    \E i \in 1..Len(NOTES), fresh \in FreshContextStates :
        /\ variant \in {"selects", "shared"}
        /\ MayPlay
        /\ NOTES[i] # keyValue
        /\ keyValue' = NOTES[i]
        /\ Apply(legacyChange(variant, NOTES[i], typeValue, fresh))
        /\ UNCHANGED <<variant, tables, typeValue, tuningChecked, call, ret>>

\* typeSelect 'change' (part_001 tail, part_003)
LegacyTypeChange ==
    \E t \in KeySet(CHORD_TYPES), fresh \in FreshContextStates :
        /\ variant \in {"selects", "shared"}
        /\ MayPlay
        /\ t # typeValue
        /\ typeValue' = t
        /\ Apply(legacyChange(variant, keyValue, t, fresh))
        /\ UNCHANGED <<variant, tables, keyValue, tuningChecked, call, ret>>

\* chordSelect 'change' (part_000): another "<root> <type>" option.
LegacyChordChange ==
    \E i \in 1..Len(NOTES), t \in KeySet(CHORD_TYPES), fresh \in FreshContextStates :
        /\ variant = "chords"
        /\ MayPlay
        /\ <<NOTES[i], t>> # <<keyValue, typeValue>>
        /\ keyValue' = NOTES[i]
        /\ typeValue' = t
        /\ Apply(legacyChange(variant, NOTES[i], t, fresh))
        /\ UNCHANGED <<variant, tables, tuningChecked, call, ret>>

\* playBtn 'click' (part_003): plays without touching the circle; the click
\* then reaches the window listener.
LegacyPlayClick ==
    \E fresh \in FreshContextStates :
        /\ variant = "shared"
        /\ Apply(windowClick(playChord(variant, activeIndexes,
                                       getChordNotes(keyValue, typeValue).val, fresh),
                             fresh))
        /\ UNCHANGED <<variant, tables, keyValue, typeValue, tuningChecked, call, ret>>

\* A click elsewhere on the page of part_003.
LegacyWindowClick ==
    \E fresh \in FreshContextStates :
        /\ variant = "shared"
        /\ Apply(windowClick(NoEffect, fresh))
        /\ UNCHANGED <<variant, tables, keyValue, typeValue, tuningChecked, call, ret>>

NextLegacy ==
    \/ LegacyKeyChange
    \/ LegacyTypeChange
    \/ LegacyChordChange
    \/ LegacyPlayClick
    \/ LegacyWindowClick

SpecLegacy == InitLegacy /\ [][NextLegacy]_vars

\* ------------------------------------------------------------------------
\* Properties
\* ------------------------------------------------------------------------
\* The latest event sounded a chord (chords are played with triangle waves,
\* single notes with a sine).  A tuning change silences `tones`, so a chord
\* in `tones` was resolved in the tuning mode now selected.
ChordSounded == tones # <<>> /\ tones[1].type = "triangle"

\* f is BASE_FREQ * 2^(step / N): whole octaves in the rational part, the
\* rest of the exponent in lowest terms.
IsBaseTimesPow2(f, step, N) ==
    /\ f.d > 0 /\ f.m > 0
    /\ f.n * 100 = 26163 * TwoTo(step \div N) * f.d
    /\ f.e * N = (step % N) * f.m
    /\ GCD(f.e, f.m) = 1

\* round(o * N / 12), halves up: the offset o of 12 scaled to N.
ScaledOffset(o, N) == CHOOSE k \in 0..(2 * N) : 24 * k <= 2 * o * N + 12 /\ 2 * o * N + 12 < 24 * (k + 1)

\* The step offsets of formula `name` in division N, as the chord formula
\* engine is described: canonical offsets rescaled, the N=31 extras as given.
ExpectedOffsets(name, N) ==
    IF name = "Supermajor" THEN <<0, 9, 13>>
    ELSE IF name = "Subminor" THEN <<0, 6, 13>>
    ELSE LET canon == OwnValue(CHORD_TYPES_12,
                         IF name = "Quarter-tone Major" THEN "Major"
                         ELSE IF name = "Quarter-tone Minor" THEN "Minor" ELSE name)
         IN  [i \in 1..Len(canon) |-> ScaledOffset(canon[i], N)]

\* C1: a chord resolved in equal temperament sounds, in formula order, the
\* steps (root + scaledOffset_i) mod N, each at BASE_FREQ * 2^(step_i / N),
\* and highlights exactly those steps; root 0 Major at N=12 gives steps
\* 0,4,7 and root 10 Major gives 10,2,5.
C1_ETChordStepsAndFrequencies ==
    (ChordSounded /\ ~tuningChecked) =>
        LET N    == currentDivision
            offs == ExpectedOffsets(typeValue, N)
            step(i) == (keyValue + offs[i]) % N
        IN  /\ Len(tones) = Len(offs)
            /\ \A i \in 1..Len(offs) : IsBaseTimesPow2(tones[i].freq, step(i), N)
            /\ activeIndexes = {step(i) : i \in 1..Len(offs)}
            /\ (N = 12 /\ typeValue = "Major" /\ keyValue = 0) => activeIndexes = {0, 4, 7}
            /\ (N = 12 /\ typeValue = "Major" /\ keyValue = 10) =>
                   /\ activeIndexes = {10, 2, 5}
                   /\ IsBaseTimesPow2(tones[2].freq, 2, 12)
                   /\ IsBaseTimesPow2(tones[3].freq, 5, 12)

\* An ET chord whose steps wrap past the octave has sounded.
C1_Witness ==
    /\ ChordSounded /\ ~tuningChecked
    /\ currentDivision = 31 /\ keyValue = 30 /\ typeValue = "Supermajor"

\* f = g * (p / q) for numbers f, g
IsRatioOf(f, g, p, q) ==
    /\ IsNumber(f) /\ IsNumber(g)
    /\ f.n * g.d * q = g.n * p * f.d
    /\ f.e = g.e /\ f.m = g.m

\* C2: a chord resolved in just intonation whose formula has a ChordJustRatios
\* entry with at least as many ratios as voices sounds ET(root) * ratio[i]:
\* the root at the ET frequency of the root step, the others at exact rational
\* multiples; root 0 Major at N=12 gives BASE, BASE*5/4, BASE*3/2.
C2_JIChordFrequencies ==
    (ChordSounded /\ tuningChecked /\ HasOwn(CHORD_JI_RATIOS, typeValue)) =>
        LET N      == currentDivision
            ratios == OwnValue(CHORD_JI_RATIOS, typeValue)
            count  == Len(ExpectedOffsets(typeValue, N))
        IN  Len(ratios) >= count =>
            /\ Len(tones) = count
            /\ IsBaseTimesPow2(tones[1].freq, keyValue, N)
            /\ \A i \in 1..count :
                   IsRatioOf(tones[i].freq, tones[1].freq, ratios[i][1], ratios[i][2])
            /\ (N = 12 /\ typeValue = "Major" /\ keyValue = 0) =>
                   /\ tones[1].freq = [n |-> 26163, d |-> 100, e |-> 0, m |-> 1]
                   /\ tones[2].freq = [n |-> 26163, d |-> 80, e |-> 0, m |-> 1]
                   /\ tones[3].freq = [n |-> 78489, d |-> 200, e |-> 0, m |-> 1]

\* A JI chord has sounded on a root whose JI-approx frequency differs from
\* its ET frequency.
C2_Witness ==
    /\ ChordSounded /\ tuningChecked
    /\ currentDivision = 19 /\ keyValue = 1 /\ typeValue = "Minor 7th"
    /\ jiApproxFrequencies[2] # etFrequencies[2]

\* The chord sets in force for the division of a getChordStepIndexes call.
SetsOfCall == TablesFor(variant, call.N).sets

\* C3: resolving a formula name that is not in the division's formula set
\* returns an empty sequence and raises no error, for every root and division.
C3_UnknownFormulaEmpty ==
    /\ (call.fn = "getChordStepIndexes" /\ ret.done /\ ~HasOwn(SetsOfCall, call.name))
           => (~ret.throws /\ ret.val = <<>>)
    /\ (call.fn = "getChordNotes" /\ ret.done /\ ~HasOwn(CHORD_TYPES, call.name))
           => (~ret.throws /\ ret.val = <<>>)

\* C4: every highlighted step, the selected root, and every step the current
\* selection resolves to is an integer in [0, currentDivision); no tone was
\* started from a lookup outside the table.
C4_StepsInRange ==
    LET N == currentDivision
        r == getChordStepIndexes(variant, keyValue, typeValue, chordSets, N)
    IN  /\ activeIndexes \subseteq 0..(N - 1)
        /\ keyValue \in 0..(N - 1)
        /\ ~r.throws
        /\ \A j \in 1..Len(r.val) : r.val[j] \in 0..(N - 1)
        /\ \A j \in 1..Len(tones) : IsNumber(tones[j].freq)
        /\ ChordSounded => Len(tones) = Len(r.val)

\* A chord whose steps wrap around is highlighted.
C4_Witness ==
    /\ currentDivision = 19 /\ keyValue = 18 /\ typeValue = "Major 7th"
    /\ Cardinality(activeIndexes) = 4

\* C5: for every supported division N and each of the 9 canonical formulas,
\* the chord set built for N maps each canonical offset to round(offset*N/12),
\* halves up; at N=12 the canonical offsets are unchanged.
C5_RescaledOffsets ==
    /\ \A i \in 1..Len(CHORD_TYPES_12) :
         LET name == CHORD_TYPES_12[i].name
             canon == CHORD_TYPES_12[i].intervals
         IN  /\ HasOwn(chordSets, name)
             /\ OwnValue(chordSets, name) =
                   [j \in 1..Len(canon) |-> ScaledOffset(canon[j], currentDivision)]
             /\ currentDivision = 12 => OwnValue(chordSets, name) = canon
    /\ Len(CHORD_TYPES_12) = 9

\* The chord sets of a division where an offset falls on a half step
\* (6 * 19 / 12 = 9.5) are in force.
C5_Witness ==
    /\ currentDivision = 19
    /\ OwnValue(chordSets, "Diminished") = <<0, 5, 10>>


\* C6: computeJIFrequenciesForChord never fails: for every root step in
\* [0, N), every formula name and every count >= 1 it returns exactly count
\* frequencies, each a finite positive number.
C6_JIChordTotal ==
    (call.fn = "computeJIFrequenciesForChord" /\ ret.done /\ call.root < call.N) =>
        /\ ~ret.throws
        /\ Len(ret.val) = call.count
        /\ \A i \in 1..Len(ret.val) : IsFinitePositive(ret.val[i])

\* C7: every division offers the 9 canonical formula names; Supermajor
\* <<0,9,13>> and Subminor <<0,6,13>> are offered exactly when N = 31, taken as
\* given; the revisions that know Quarter-tone Major / Minor offer them exactly
\* when N = 24, with the offsets of the rescaled Major / Minor.
C7_FormulaNamesPerDivision ==
    (call.fn = "buildChordSetsForDivision" /\ ret.done) =>
        LET N    == call.N
            sets == ret.val
            quarterTones == variant \in {"script", "updated"}
        IN  /\ ~ret.throws
            /\ \A i \in 1..Len(CHORD_TYPES_12) : HasOwn(sets, CHORD_TYPES_12[i].name)
            /\ HasOwn(sets, "Supermajor") <=> N = 31
            /\ HasOwn(sets, "Subminor") <=> N = 31
            /\ N = 31 => /\ OwnValue(sets, "Supermajor") = <<0, 9, 13>>
                         /\ OwnValue(sets, "Subminor") = <<0, 6, 13>>
            /\ HasOwn(sets, "Quarter-tone Major") <=> (quarterTones /\ N = 24)
            /\ HasOwn(sets, "Quarter-tone Minor") <=> (quarterTones /\ N = 24)
            /\ (quarterTones /\ N = 24) =>
                   /\ OwnValue(sets, "Quarter-tone Major") = OwnValue(sets, "Major")
                   /\ OwnValue(sets, "Quarter-tone Minor") = OwnValue(sets, "Minor")
                   /\ OwnValue(sets, "Quarter-tone Major") = <<0, 8, 14>>
                   /\ OwnValue(sets, "Quarter-tone Minor") = <<0, 6, 14>>
            /\ Len(sets) = 9 + (IF N = 31 THEN 2 ELSE 0)
                             + (IF quarterTones /\ N = 24 THEN 2 ELSE 0)

\* The chord sets of the 31-tone division have been built.
C7_Witness ==
    /\ call.fn = "buildChordSetsForDivision" /\ ret.done /\ call.N = 31
    /\ Len(ret.val) = 11

\* C8: for every N >= 1 the ET table has exactly N entries, entry s is
\* BASE_FREQ * 2^(s/N), and entry 0 is 261.63 Hz exactly.
C8_ETTable ==
    (call.fn = "computeETFrequencies" /\ ret.done) =>
        /\ ~ret.throws
        /\ Len(ret.val) = call.N
        /\ \A s \in 0..(call.N - 1) : IsBaseTimesPow2(ret.val[s + 1], s, call.N)
        /\ ret.val[1] = [n |-> 26163, d |-> 100, e |-> 0, m |-> 1]

\* The ET table of a division that is not a multiple of 12 has been computed.
C8_Witness ==
    /\ call.fn = "computeETFrequencies" /\ ret.done /\ call.N = 19
    /\ Len(ret.val) = 19

\* A chord of one voice on a root at or past the octave: its only tone is the
\* ET frequency looked up for the root step.
RootLookupPastOctave ==
    /\ call.fn = "computeJIFrequenciesForChord" /\ ret.done
    /\ call.name = "Major" /\ call.count = 1
    /\ call.root >= call.N

C10_NamesOf12Ascii ==
    currentDivision = 12 =>
        noteNames = <<"C", "C#", "D", "D#", "E", "F", "F#", "G", "G#", "A", "A#", "B">>

\* C10 amended: the note names of the 12-tone division are the 12 natural
\* semitone names C, C-sharp, D, D-sharp, E, F, F-sharp, G, G-sharp, A,
\* A-sharp, B in order; script.js spells the sharp "#", the revision with the
\* name tables spells it with the sharp sign, and the third revision with the
\* bytes its SEMITONE_NAMES_12 holds for the sharp sign.
C10_NamesOf12PerRevision ==
    currentDivision = 12 =>
        LET sharp == CASE variant = "script" -> "#"
                       [] variant = "manual" -> Sharp
                       [] variant = "updated" -> SharpGarbled
            letters == <<"C", "C", "D", "D", "E", "F", "F", "G", "G", "A", "A", "B">>
            sharps  == {1, 3, 6, 8, 10}
        IN  /\ Len(noteNames) = 12
            /\ \A s \in 0..11 :
                   noteNames[s + 1] = IF s \in sharps THEN letters[s + 1] \o sharp
                                                      ELSE letters[s + 1]
            /\ variant = "script" => noteNames[2] = "C#"

\* The name-table revision sounds a tone while the 12-tone names are in force.
C10_Witness ==
    /\ currentDivision = 12 /\ tones # <<>> /\ noteNames[12] = "B"
    /\ variant = "manual"


\* The tones a chord of revision v sounds for the integer selection (root,
\* type) in division N and the given tuning mode; v's tables are t.
ChordTonesOf(v, t, N, root, type, useJI) ==
    LET steps == getChordStepIndexes(v, root, type, t.sets, N).val
        freqs == IF useJI
                 THEN computeJIFrequenciesForChord(t.et, root, type, Len(steps)).val
                 ELSE ETChordFrequencies(v, steps, t.et)
    IN  [j \in 1..Len(freqs) |-> Tone(freqs[j], "triangle")]

C12_OutOfRangeStepNormalized ==
    (/\ call.fn = "computeJIFrequenciesForChord" /\ ret.done
     /\ call.root >= call.N
     /\ HasOwn(CHORD_JI_RATIOS, call.name)) =>
        /\ ~ret.throws
        /\ Len(ret.val) = call.count
        /\ \A i \in 1..Len(ret.val) : IsNumber(ret.val[i])
        /\ \E k \in 0..1 :
               IsRatioOf(ret.val[1], ETEntry(call.N, call.root % call.N), TwoTo(k), 1)


\* The division a 'change' request asks for is a positive integer.
RequestIsPositiveInteger == call.name = "integer" /\ call.N >= 1

\* C13: a request to switch to a division that is not a positive integer
\* fails with an error reported to the caller and builds no tables: the
\* session still holds the tables of the division it had.
C13_InvalidDivisionReported ==
    (call.fn = "divisionChange" /\ ret.done /\ ~RequestIsPositiveInteger) =>
        /\ ret.throws
        /\ currentDivision = DEFAULT_DIVISION
        /\ etFrequencies = computeETFrequencies(DEFAULT_DIVISION)


\* C14: the JI-approx table is display only: the tone a note click starts
\* (a sine) never takes its frequency from the JI-approx table; it is the ET
\* frequency of a step of the current division.
C14_JIApproxDisplayOnly ==
    \A j \in 1..Len(tones) :
        tones[j].type = "sine" =>
            \E i \in 0..(currentDivision - 1) : tones[j].freq = etFrequencies[i + 1]


\* C15: when a chord is played while the selected chord name is absent from
\* the division's formula set, no tone is started and afterwards no step is
\* highlighted, whatever an earlier chord had highlighted.
C15_AbsentChordClearsHighlights ==
    (call.fn = "playCurrentChord" /\ ret.done /\ ~HasOwn(chordSets, call.name)) =>
        /\ tones = <<>>
        /\ activeIndexes = {}


\* C16: across any sequence of events at most one audio context is ever
\* created; there is none until an event needs it, and every later event
\* reuses it.
C16_OneAudioContext ==
    /\ contextsCreated <= 1
    /\ contextsCreated = 0 <=> audioCtx = "null"


\* C17: in every reachable state of the session the derived data agree with
\* currentDivision: noteNames, etFrequencies and jiApproxFrequencies have
\* exactly currentDivision entries and are the tables computed for it,
\* chordSets is the set built for it, the selected root is a step of
\* [0, currentDivision) and the selected chord type is a key of chordSets.
C17_DerivedDataConsistent ==
    /\ Len(noteNames) = currentDivision
    /\ Len(etFrequencies) = currentDivision
    /\ Len(jiApproxFrequencies) = currentDivision
    /\ noteNames = NoteNamesFor(variant, currentDivision)
    /\ etFrequencies = computeETFrequencies(currentDivision)
    /\ jiApproxFrequencies = computeJIApproxFrequencies(currentDivision)
    /\ chordSets = buildChordSetsForDivision(variant, currentDivision)
    /\ getSelectedRootIndex(keyValue) \in 0..(currentDivision - 1)
    /\ HasOwn(chordSets, typeValue)

\* Another division was chosen after a chord had sounded: the tables were
\* rebuilt for it and the selections start over.
C17_Witness ==
    /\ currentDivision = 31
    /\ audioCtx # "null"
    /\ tones = <<>>
    /\ keyValue = 0
    /\ typeValue = FirstType(chordSets)
    /\ Len(etFrequencies) = 31


C19_FallbackLadder ==
    (/\ call.fn = "computeJIFrequenciesForChord" /\ ret.done
     /\ call.root < call.N
     /\ ~HasOwn(CHORD_JI_RATIOS, call.name)) =>
        LET rootET == ETEntry(call.N, call.root)
        IN  /\ ~ret.throws
            /\ IF HasOwn(CHORD_TYPES_12, call.name)
               THEN LET offs == OwnValue(CHORD_TYPES_12, call.name)
                    IN  /\ Len(ret.val) = Min(call.count, Len(offs))
                        /\ \A i \in 1..Len(ret.val) :
                               IsRatioOf(ret.val[i], rootET,
                                         StandardRatioOf(offs[i])[1],
                                         StandardRatioOf(offs[i])[2])
               ELSE /\ Len(ret.val) = call.count
                    /\ \A i \in 1..call.count :
                           ret.val[i] = TimesPow2(rootET, i - 1, call.count)


\* C20: when the formula's ChordJustRatios entry has fewer ratios than the
\* requested count, the chord has exactly count frequencies: the first
\* len(ratios) are ET(root) * ratio[i] and every remaining voice is
\* ET(root) * the last ratio (root a step of the division).
C20_ShortRatiosRepeatLast ==
    (/\ call.fn = "computeJIFrequenciesForChord" /\ ret.done
     /\ call.root < call.N
     /\ HasOwn(CHORD_JI_RATIOS, call.name)
     /\ Len(OwnValue(CHORD_JI_RATIOS, call.name)) < call.count) =>
        LET rootET == ETEntry(call.N, call.root)
            ratios == OwnValue(CHORD_JI_RATIOS, call.name)
            last   == ratios[Len(ratios)]
        IN  /\ ~ret.throws
            /\ Len(ret.val) = call.count
            /\ \A i \in 1..Len(ratios) :
                   IsRatioOf(ret.val[i], rootET, ratios[i][1], ratios[i][2])
            /\ \A i \in (Len(ratios) + 1)..call.count :
                   IsRatioOf(ret.val[i], rootET, last[1], last[2])

\* Five voices were asked of the three-ratio Major chord: the fourth and
\* fifth repeat the fifth of the chord.
C20_Witness ==
    /\ call.fn = "computeJIFrequenciesForChord" /\ ret.done /\ ~ret.throws
    /\ call.N = 19 /\ call.root = 7 /\ call.name = "Major" /\ call.count = 5
    /\ Len(ret.val) = 5
    /\ ret.val[4] = ret.val[3]
    /\ ret.val[5] = ret.val[3]
    /\ ret.val[3] # ret.val[2]


\* The semitone nearest to step s of division N, halves rounded up:
\* round(s * 12 / N).
NearestSemitone(s, N) ==
    CHOOSE r \in 0..12 : 2 * N * r - N <= 24 * s /\ 24 * s < 2 * N * r + N

\* The fixed table 1, 16/15, 9/8, 6/5, 5/4, 4/3, 45/32, 3/2, 8/5, 5/3, 9/5,
\* 15/8 as numerator and denominator.
StandardJIRatio ==
    << <<1, 1>>, <<16, 15>>, <<9, 8>>, <<6, 5>>, <<5, 4>>, <<4, 3>>,
       <<45, 32>>, <<3, 2>>, <<8, 5>>, <<5, 3>>, <<9, 5>>, <<15, 8>> >>

\* C21: for every division N and step s in [0,N) the JI-approx table entry s
\* is BASE_FREQ * StandardJIRatio[round(s*12/N) mod 12] * 2^floor((s*12/N)/12)
\* (the octave offset is 0 for these steps), and the table has exactly N
\* entries.
C21_JIApproxTable ==
    (call.fn = "computeJIApproxFrequencies" /\ ret.done) =>
        /\ ~ret.throws
        /\ Len(ret.val) = call.N
        /\ \A s \in 0..(call.N - 1) :
               LET ratio == StandardJIRatio[(NearestSemitone(s, call.N) % 12) + 1]
                   oct   == CHOOSE k \in 0..1 : 12 * call.N * k <= 12 * s
                                             /\ 12 * s < 12 * call.N * (k + 1)
               IN  /\ ret.val[s + 1].d > 0
                   /\ ret.val[s + 1].e = 0
                   /\ ret.val[s + 1].n * 100 * ratio[2]
                          = 26163 * ratio[1] * TwoTo(oct) * ret.val[s + 1].d

\* The table of 31 steps: step 1 rounds down to C, step 2 up to C#, and the
\* last step rounds up to semitone 12, which is C again.
C21_Witness ==
    /\ call.fn = "computeJIApproxFrequencies" /\ ret.done
    /\ call.N = 31
    /\ Len(ret.val) = 31
    /\ ret.val[2] = BASE_FREQ_C4
    /\ ret.val[3] = TimesRatio(BASE_FREQ_C4, 16, 15)
    /\ ret.val[31] = BASE_FREQ_C4


\* The spellings of the half-sharp annotation: the words, the glyph, and the
\* glyph as the bytes of part_002 decode.
HalfSharpAnnotations == {" half-sharp", HalfSharp, HalfSharpGarbled}

\* The labels the four-case policy allows for step s of division N, with
\* frac = r / N, natural threshold 1/8 and half threshold 1/5.
PolicyLabels(names, N, s) ==
    LET base          == (12 * s) \div N
        semitoneIndex == base % 12
        r             == (12 * s) % N
        off           == IF 2 * r >= N THEN 2 * r - N ELSE N - 2 * r
    IN  IF 8 * r < N THEN {names[semitoneIndex + 1]}
        ELSE IF 8 * (N - r) < N THEN {names[((semitoneIndex + 1) % 12) + 1]}
        ELSE IF 5 * off <= 2 * N
        THEN {names[semitoneIndex + 1] \o a : a \in HalfSharpAnnotations}
        ELSE {names[semitoneIndex + 1] \o " (" \o ToFixed1(100 * r, N) \o "c)"}

\* C22: for every division N and step s, with p = s*12/N, base = floor(p),
\* semitoneIndex = base mod 12 and frac = p - base, the generated label is
\* the natural name of semitoneIndex when frac is within the natural
\* threshold of 0, the natural name of (semitoneIndex + 1) mod 12 when frac
\* is within it of 1, the lower semitone's name annotated half-sharp (never
\* flat) when frac is in the half-threshold band around 0.5, and otherwise
\* the semitone name with frac*100 in cents.
C22_FourCaseLabels ==
    (call.fn = "generateNoteNamesForDivision" /\ ret.done) =>
        /\ ~ret.throws
        /\ Len(ret.val) = call.N
        /\ \A s \in 0..(call.N - 1) :
               ret.val[s + 1] \in PolicyLabels(SEMITONE_NAMES_12(variant), call.N, s)


\* An event that touched the audio device: it constructed or resumed the
\* context or started a tone.
AudioStep ==
    \/ audioCtx' # audioCtx
    \/ contextsCreated' # contextsCreated
    \/ tones' # <<>>

\* C23: frequency computation is independent of the audio device: the page
\* starts with noteNames, etFrequencies, jiApproxFrequencies and chordSets
\* fully computed while no audio context exists, and no audio-related event
\* (context creation, resume on click, chord play, single-note click)
\* changes currentDivision or any of those tables.
C23_TablesIndependentOfAudio ==
    /\ audioCtx = "null"
    /\ contextsCreated = 0
    /\ noteNames = NoteNamesFor(variant, currentDivision)
    /\ etFrequencies = computeETFrequencies(currentDivision)
    /\ jiApproxFrequencies = computeJIApproxFrequencies(currentDivision)
    /\ chordSets = buildChordSetsForDivision(variant, currentDivision)
    /\ Len(etFrequencies) = DEFAULT_DIVISION
    /\ [][AudioStep => UNCHANGED tables]_vars

\* A chord has sounded on a running context in the 24-step division, whose
\* tables are in place.
C23_Witness ==
    /\ currentDivision = 24
    /\ audioCtx = "running"
    /\ contextsCreated = 1
    /\ Len(tones) >= 3
    /\ etFrequencies = computeETFrequencies(24)


SelectedSteps ==
    LET res == getChordStepIndexes(variant, getSelectedRootIndex(keyValue), typeValue,
                                   chordSets, currentDivision)
    IN  {res.val[j] : j \in 1..Len(res.val)}

\* The event was a tuning toggle or a click on a single note.
ToggleOrNoteClick ==
    \/ tuningChecked' # tuningChecked
    \/ Len(tones') = 1 /\ tones'[1].type = "sine"

\* C25: after any sequence of events the set of highlighted steps is either
\* empty (no chord played since the last division change) or exactly the
\* steps of the selected root and chord type in the current division; a
\* tuning toggle or a single-note click never changes the highlighted set.
C25_HighlightsFollowSelection ==
    /\ [](activeIndexes = {} \/ activeIndexes = SelectedSteps)
    /\ [][ToggleOrNoteClick => activeIndexes' = activeIndexes]_vars

\* A note was clicked in JI mode while the chord of root 1 stays highlighted.
C25_Witness ==
    /\ Len(tones) = 1 /\ tones[1].type = "sine"
    /\ tuningChecked
    /\ keyValue = 1
    /\ activeIndexes # {}
    /\ activeIndexes = SelectedSteps


\* C26: after every event the frequency shown for each step i of the circle
\* is that of jiApproxFrequencies[i] when the tuning switch is in JI position
\* and of etFrequencies[i] when it is in ET position, for the current
\* division; the display never shows the other mode's or an earlier
\* division's values.
C26_DisplayFollowsSwitch ==
    /\ Len(shownFrequencies) = currentDivision
    /\ \A i \in 1..currentDivision :
           shownFrequencies[i] = (IF tuningChecked
                                  THEN JIApproxEntry(currentDivision, i - 1)
                                  ELSE ETEntry(currentDivision, i - 1))

\* The switch was set to JI and the 31-step division chosen: the circle
\* shows the JI-approx values, which differ from the ET ones.
C26_Witness ==
    /\ tuningChecked
    /\ currentDivision = 31
    /\ shownFrequencies = jiApproxFrequencies
    /\ shownFrequencies[3] # etFrequencies[3]
    /\ tones # <<>>


\* C27: for every division on offer and every formula name offered for it, a
\* chord played in just intonation uses the formula's own ChordJustRatios
\* entry: voice i sounds ET(root) * ratio[i], and the equal spacing
\* 2^(i/count) is never what a selectable chord sounds.
C27_SelectableChordsHaveRatios ==
    (ChordSounded /\ tuningChecked) =>
        /\ HasOwn(CHORD_JI_RATIOS, typeValue)
        /\ LET ratios == OwnValue(CHORD_JI_RATIOS, typeValue)
               rootET == etFrequencies[getSelectedRootIndex(keyValue) + 1]
           IN  /\ Len(ratios) >= Len(tones)
               /\ \A i \in 1..Len(tones) :
                      IsRatioOf(tones[i].freq, rootET, ratios[i][1], ratios[i][2])


\* A key change, a chord-type change or a click on the play button.
ChordEvent ==
    \/ keyValue' # keyValue /\ currentDivision' = currentDivision
    \/ typeValue' # typeValue /\ currentDivision' = currentDivision
    \/ PlayClick

\* The number of voices of a formula name: 4 for the seventh chords, 3 for
\* the triads.
VoicesOf(name) ==
    IF name \in {"Major 7th", "Minor 7th", "Dominant 7th"} THEN 4 ELSE 3

\* C28: every key change, chord-type change and play-button event with a
\* known chord starts exactly one tone per formula offset (3 for triads, 4
\* for seventh chords), the same number in ET mode and in JI mode and equal
\* to the number of resolved steps; a division change and a tuning toggle
\* start no tone.
C28_OneTonePerOffset ==
    /\ [][ChordEvent =>
            /\ Len(tones') = Len(OwnValue(chordSets, typeValue'))
            /\ Len(tones') = VoicesOf(typeValue')
            /\ Len(tones') = Len(getChordStepIndexes(variant, keyValue', typeValue',
                                                     chordSets, currentDivision).val)
            /\ \A j \in 1..Len(tones') : tones'[j].type = "triangle"]_vars
    /\ [][(currentDivision' # currentDivision \/ tuningChecked' # tuningChecked)
              => tones' = <<>>]_vars

\* A seventh chord has sounded its four voices in JI mode.
C28_Witness ==
    /\ ChordSounded
    /\ tuningChecked
    /\ typeValue = "Dominant 7th"
    /\ currentDivision = 19
    /\ Len(tones) = 4


\* f <= g for two numbers without an irrational factor.
RationalLeq(f, g) == f.n * g.d <= g.n * f.d

\* C29: for every division on offer the JI-approx table is non-decreasing in
\* the step index and every entry lies in [BASE_FREQ, 2 * BASE_FREQ): a
\* higher step of the circle never shows a lower frequency than a lower one.
C29_JIApproxMonotone ==
    (call.fn = "computeJIApproxFrequencies" /\ ret.done /\ call.N \in DivisionSet) =>
        /\ \A i \in 1..Len(ret.val) :
               /\ ret.val[i].d > 0 /\ ret.val[i].e = 0
               /\ RationalLeq(BASE_FREQ_C4, ret.val[i])
               /\ ~RationalLeq(TimesRatio(BASE_FREQ_C4, 2, 1), ret.val[i])
        /\ \A i, j \in 1..Len(ret.val) :
               i < j => RationalLeq(ret.val[i], ret.val[j])

=============================================================================
